---- MODULE Spec2Model ----
(***************************************************************************)
(* The Dragon Ball radar of src/App.tsx: the session state held by the    *)
(* App component, the collection effect, the scan (searchBalls and the    *)
(* oracle client generateValidCoordinates of src/services/geminiService)  *)
(* and the wishes (checkPrerequisite, handleShenronWish).                 *)
(*                                                                         *)
(* Units.  Lengths are in metres: collectionRadius 0.05 km is 50.  A      *)
(* latitude is given as the length in metres of the arc from a reference  *)
(* point to the north, a longitude as the length of the arc to the east,  *)
(* so that the haversine distance of calculateDistance, over the few      *)
(* kilometres of a scan, is the length of the straight line between two   *)
(* places.  The places of scans and of the sensor lie on one meridian     *)
(* (lng = 0), where the distance is the absolute difference of the        *)
(* latitudes.                                                             *)
(*                                                                         *)
(* React.  A setState(updater) call queues the updater; updaters are      *)
(* applied in the order they were queued.  The component is rendered      *)
(* after every handler that queued one; the collection effect of a render *)
(* whose dependencies changed is passive: it runs later, at the latest    *)
(* just before the next render, with the values of the render that        *)
(* scheduled it.  effectDue says that this effect has not run yet.        *)
(* The persistence effect (localStorage.setItem) runs with the render     *)
(* that scheduled it: nothing reads the snapshot before the next start.   *)
(*                                                                         *)
(* An exception that leaves a render or an effect unmounts the component  *)
(* tree (there is no error boundary): mounted says the App is alive.      *)
(* pastRaces is the history of the run: the races currentRace has held.   *)
(***************************************************************************)
EXTENDS Integers, Sequences, FiniteSets, TLC

VARIABLES state, effectDue, inFlight, lastWish, radarStep, storage, mounted,
          pastRaces

vars == <<state, effectDue, inFlight, lastWish, radarStep, storage, mounted,
          pastRaces>>

----------------------------------------------------------------------------
(* Bounds of the model *)

\* at most this many oracle requests are followed at once
MaxInFlight == 2
\* the longest array the oracle replies with
MaxItems == 8

----------------------------------------------------------------------------
(* Values *)

\* null in a field that holds an object, and in the error field (a string)
Null == [null |-> TRUE]
NoError == "null"
\* an argument that was not passed
Undefined == "undefined"
\* the result of parseFloat on a text that is no number
NaN == -1

\* the number of Dragon Balls of a set: foundCount < 7, Array.from({ length: 7 })
Seven == 7

\* latitudes (metres of arc) the position sensor reports
SensorPlaces == {0, 50}

\* the latitudes of the seven places of a reply, one sequence per layout
Layouts == { <<0, 0, 0, 0, 0, 0, 0>>, <<0, 0, 0, 0, 0, 49, 50>> }

Location(p) == [lat |-> p, lng |-> 0, accuracy |-> 0]

RACES == <<"Terrien", "Cyborg", "Namek", "Démon", "Saiyan", "Dieu">>

\* MASTERY_LEVELS[i].radius, in metres
MASTERY_LEVELS == <<50, 25, 10, 1>>

SPECIAL_FEATURES == <<"scouter", "custom_zone", "world_scan">>

\* the ids of the design buttons
DESIGNS == <<"bulma", "capsule", "saiyan", "namek">>

Range(seq) == {seq[i] : i \in DOMAIN seq}

\* Number.prototype.toString of a radius in km
RadiusToString(r) ==
    CASE r = 50 -> "0.05"
      [] r = 25 -> "0.025"
      [] r = 10 -> "0.01"
      [] r = 1  -> "0.001"
      [] OTHER  -> "NaN"

\* parseFloat of an id; the result in metres, NaN for a text that is no number
ParseFloat(s) ==
    CASE s = "0.05"  -> 50
      [] s = "0.025" -> 25
      [] s = "0.01"  -> 10
      [] s = "0.001" -> 1
      [] OTHER       -> NaN

\* lastWish is the outcome of the last call that returned early or was
\* granted (a wish, a scan refused for want of a center, a start of the
\* page, a change of range); NoWish: no such call since the last other event
NoWish == [type |-> "none", id |-> "", result |-> "none"]

defaultState ==
    [range            |-> 10,
     userLocation     |-> Null,
     scanCenter       |-> Null,
     dragonBalls      |-> <<>>,
     isLoading        |-> FALSE,
     error            |-> NoError,
     design           |-> "bulma",
     collectionRadius |-> 50,
     unlockedFeatures |-> <<>>,
     currentRace      |-> "Terrien"]

----------------------------------------------------------------------------
(* The snapshot: JSON.stringify(state) in localStorage, src/App.tsx 97-99,  *)
(* read back by the initializer of useState, 67-82                          *)

\* the keys of the state object, in the order JSON.stringify writes them
Keys ==
    <<"range", "userLocation", "scanCenter", "dragonBalls", "isLoading",
      "error", "design", "collectionRadius", "unlockedFeatures", "currentRace">>

\* JSON.stringify(state): the text, as the sequence of its members
Stringify(st) ==
    [i \in DOMAIN Keys |-> [key |-> Keys[i], value |-> st[Keys[i]]]]

\* JSON.parse of such a text: the object with the members of the text
JsonParse(text) ==
    [k \in {text[i].key : i \in DOMAIN text} |->
        text[CHOOSE i \in DOMAIN text : text[i].key = k].value]

\* a merge in which the defaults win: { ...saved, ...defaultState }
Restore_DefaultsWin(saved) ==
    [k \in DOMAIN defaultState |-> defaultState[k]]

\* { ...defaultState, ...saved }
Restore(saved) ==
    [k \in DOMAIN defaultState |->
        IF k \in DOMAIN saved THEN saved[k] ELSE defaultState[k]]

\* localStorage: the item 'radar_save_v14' (absent, a JSON text, or a text
\* that is no JSON) and whether setItem throws for want of room
NoItem == [kind |-> "absent", text |-> <<>>, full |-> FALSE]

\* the persistence effect of a render of `st`
Persist(st) ==
    IF storage.full
    THEN /\ mounted' = FALSE
         /\ UNCHANGED storage
    ELSE /\ mounted' = mounted
         /\ storage' = [storage EXCEPT !.kind = "json", !.text = Stringify(st)]

----------------------------------------------------------------------------
(* Derived values of a render *)

Abs(x) == IF x < 0 THEN -x ELSE x

\* the square root of n, rounded down, by Newton's iteration from x
RECURSIVE Newton(_, _)
Newton(n, x) ==
    LET y == (x + n \div x) \div 2
    IN  IF y >= x THEN x ELSE Newton(n, y)

\* the length of the straight line over a north and b east, rounded down:
\* it is below a whole number of metres exactly if the length is
Hypot(a, b) ==
    IF a = 0 /\ b = 0 THEN 0 ELSE Newton(a * a + b * b, a * a + b * b)

\* NaN when a coordinate is no number (undefined in a malformed item)
calculateDistance(lat1, lon1, lat2, lon2) ==
    IF NaN \in {lat1, lon1, lat2, lon2} THEN NaN
    ELSE IF lon1 = lon2 THEN Abs(lat2 - lat1)
    ELSE Hypot(lat2 - lat1, lon2 - lon1)

effectiveCenter(st) ==
    IF st.scanCenter # Null THEN st.scanCenter ELSE st.userLocation

foundCount(st) ==
    Cardinality({i \in DOMAIN st.dragonBalls : st.dragonBalls[i].found})

Includes(arr, x) == \E i \in DOMAIN arr : arr[i] = x

\* alert() of a rejected wish is on the screen: it blocks the page, every
\* callback and effect included, until the player closes it
AlertShown == lastWish.result \in {"InsufficientTargets", "PrerequisiteNotMet"}

----------------------------------------------------------------------------
(* The collection effect, src/App.tsx 141-151 *)

\* a pass that evaluates every target again, the found ones included
updatedBalls_Reevaluates(st) ==
    [i \in DOMAIN st.dragonBalls |->
        LET ball == st.dragonBalls[i]
            dist == calculateDistance(st.userLocation.lat, st.userLocation.lng,
                                      ball.lat, ball.lng)
        IN  [ball EXCEPT !.found = (dist # NaN /\ dist < st.collectionRadius)]]

\* a pass whose threshold is inclusive
updatedBalls_Inclusive(st) ==
    [i \in DOMAIN st.dragonBalls |->
        LET ball == st.dragonBalls[i]
            dist == calculateDistance(st.userLocation.lat, st.userLocation.lng,
                                      ball.lat, ball.lng)
        IN  IF ball.found THEN ball
            ELSE IF dist # NaN /\ dist <= st.collectionRadius
                 THEN [ball EXCEPT !.found = TRUE]
                 ELSE ball]

\* a pass that collects one target only, the first unfound one within reach
updatedBalls_OneAtATime(st) ==
    LET dist(i) == calculateDistance(st.userLocation.lat, st.userLocation.lng,
                                     st.dragonBalls[i].lat,
                                     st.dragonBalls[i].lng)
        within == {i \in DOMAIN st.dragonBalls :
                     /\ ~st.dragonBalls[i].found
                     /\ dist(i) # NaN
                     /\ dist(i) < st.collectionRadius}
    IN  [i \in DOMAIN st.dragonBalls |->
            IF i \in within /\ \A j \in within : i <= j
            THEN [st.dragonBalls[i] EXCEPT !.found = TRUE]
            ELSE st.dragonBalls[i]]

\* updatedBalls, computed from the values of the render `st`
updatedBalls(st) ==
    [i \in DOMAIN st.dragonBalls |->
        LET ball == st.dragonBalls[i]
            dist == calculateDistance(st.userLocation.lat, st.userLocation.lng,
                                      ball.lat, ball.lng)
        IN  IF ball.found THEN ball
            ELSE IF dist # NaN /\ dist < st.collectionRadius
                 THEN [ball EXCEPT !.found = TRUE]
                 ELSE ball]

\* whether the effect of render `st` calls setState
collectionWrites(st) ==
    /\ st.userLocation # Null
    /\ Len(st.dragonBalls) # 0
    /\ updatedBalls(st) # st.dragonBalls

\* the state after the effect of render `closure` ran and its updater, if it
\* queued one, was applied to `prev`
collectionEffect(closure, prev) ==
    IF collectionWrites(closure)
    THEN [prev EXCEPT !.dragonBalls = updatedBalls(closure)]
    ELSE prev

\* A handler queued an updater that takes the state to s1; React runs the
\* pending passive effect (its updater queues behind the handler's), then
\* renders.  `touched`: the updater gave a dependency of the collection effect
\* (userLocation, dragonBalls, collectionRadius) a new value or a new object.
Render(s1, touched) ==
    /\ state' = IF effectDue THEN collectionEffect(state, s1) ELSE s1
    /\ effectDue' = (touched \/ (effectDue /\ collectionWrites(state)))
    /\ Persist(IF effectDue THEN collectionEffect(state, s1) ELSE s1)

\* the pending passive effects run, if any: the collection effect, and the
\* persistence effect of the render its write brings about
Flush ==
    IF effectDue
    THEN /\ state' = collectionEffect(state, state)
         /\ effectDue' = collectionWrites(state)
         /\ IF collectionWrites(state)
            THEN Persist(collectionEffect(state, state))
            ELSE UNCHANGED <<storage, mounted>>
    ELSE UNCHANGED <<state, effectDue, storage, mounted>>

\* the collection effect runs on its own, after the render that scheduled it
CollectionPass ==
    /\ mounted
    /\ UNCHANGED pastRaces
    /\ ~AlertShown
    /\ effectDue
    /\ Flush
    /\ UNCHANGED <<inFlight, radarStep>>
    /\ lastWish' = NoWish

----------------------------------------------------------------------------
(* The position sensor, src/App.tsx 101-115 *)

\* watchPosition's success callback: a complete replacement of userLocation
PositionUpdate(p) ==
    /\ mounted
    /\ UNCHANGED pastRaces
    /\ ~AlertShown
    /\ Render([state EXCEPT !.userLocation = Location(p)], TRUE)
    /\ UNCHANGED <<inFlight, radarStep>>
    /\ lastWish' = NoWish

\* watchPosition's error callback
PositionError ==
    /\ mounted
    /\ UNCHANGED pastRaces
    /\ ~AlertShown
    /\ Render([state EXCEPT !.error = "GPS requis."], FALSE)
    /\ UNCHANGED <<inFlight, radarStep>>
    /\ lastWish' = NoWish

----------------------------------------------------------------------------
(* Wishes, src/App.tsx 153-211 *)

\* a table that asks the Saiyan wish for the mastery of Démon only
checkPrerequisite_SaiyanByRadius(st, type, id) ==
    IF type = "design" THEN [ok |-> TRUE, reason |-> ""]
    ELSE IF type = "race" THEN
        CASE id = "Cyborg" -> [ok |-> TRUE, reason |-> ""]
          [] id = "Namek"  -> [ok |-> st.collectionRadius <= 25,
                               reason |-> "Requis : Maîtrise Cyborg"]
          [] id = "Démon"  -> [ok |-> st.collectionRadius <= 10,
                               reason |-> "Requis : Maîtrise Namek"]
          [] id = "Saiyan" -> [ok |-> st.collectionRadius <= 10,
                               reason |-> "Requis : Évolution Démon"]
          [] id = "Dieu"   -> [ok |-> st.collectionRadius <= 1,
                               reason |-> "Requis : Maîtrise Saiyan"]
          [] OTHER         -> [ok |-> FALSE, reason |-> "Inconnu"]
    ELSE IF type = "mastery" THEN
        LET radius == ParseFloat(id) IN
        CASE radius = 25 -> [ok |-> st.currentRace = "Cyborg",
                             reason |-> "Requis : Race Cyborg"]
          [] radius = 10 -> [ok |-> st.currentRace = "Namek",
                             reason |-> "Requis : Race Namek"]
          [] radius = 1  -> [ok |-> st.currentRace = "Saiyan",
                             reason |-> "Requis : Race Saiyan"]
          [] OTHER       -> [ok |-> FALSE, reason |-> "Inconnu"]
    ELSE IF type = "unlock" /\ id \in Range(SPECIAL_FEATURES) THEN
        CASE id = "scouter" ->
               [ok |-> st.currentRace \in
                         {"Cyborg", "Namek", "Démon", "Saiyan", "Dieu"},
                reason |-> "Requis : Race Cyborg"]
          [] id = "custom_zone" ->
               [ok |-> Includes(st.unlockedFeatures, "scouter"),
                reason |-> "Requis : Mode Scouter"]
          [] id = "world_scan" ->
               [ok |-> /\ Includes(st.unlockedFeatures, "custom_zone")
                       /\ st.currentRace = "Dieu"
                       /\ st.collectionRadius <= 1,
                reason |-> "Requis : Dieu + Maîtrise Saiyan"]
    ELSE [ok |-> FALSE, reason |-> "Bloqué"]

\* a table that gives the tier of 0.025 km to every race
checkPrerequisite_FirstTierFree(st, type, id) ==
    IF type = "design" THEN [ok |-> TRUE, reason |-> ""]
    ELSE IF type = "race" THEN
        CASE id = "Cyborg" -> [ok |-> TRUE, reason |-> ""]
          [] id = "Namek"  -> [ok |-> st.collectionRadius <= 25,
                               reason |-> "Requis : Maîtrise Cyborg"]
          [] id = "Démon"  -> [ok |-> st.collectionRadius <= 10,
                               reason |-> "Requis : Maîtrise Namek"]
          [] id = "Saiyan" -> [ok |-> st.currentRace = "Démon",
                               reason |-> "Requis : Évolution Démon"]
          [] id = "Dieu"   -> [ok |-> st.collectionRadius <= 1,
                               reason |-> "Requis : Maîtrise Saiyan"]
          [] OTHER         -> [ok |-> FALSE, reason |-> "Inconnu"]
    ELSE IF type = "mastery" THEN
        LET radius == ParseFloat(id) IN
        CASE radius = 25 -> [ok |-> TRUE,
                             reason |-> "Requis : Race Cyborg"]
          [] radius = 10 -> [ok |-> st.currentRace = "Namek",
                             reason |-> "Requis : Race Namek"]
          [] radius = 1  -> [ok |-> st.currentRace = "Saiyan",
                             reason |-> "Requis : Race Saiyan"]
          [] OTHER       -> [ok |-> FALSE, reason |-> "Inconnu"]
    ELSE IF type = "unlock" /\ id \in Range(SPECIAL_FEATURES) THEN
        CASE id = "scouter" ->
               [ok |-> st.currentRace \in
                         {"Cyborg", "Namek", "Démon", "Saiyan", "Dieu"},
                reason |-> "Requis : Race Cyborg"]
          [] id = "custom_zone" ->
               [ok |-> Includes(st.unlockedFeatures, "scouter"),
                reason |-> "Requis : Mode Scouter"]
          [] id = "world_scan" ->
               [ok |-> /\ Includes(st.unlockedFeatures, "custom_zone")
                       /\ st.currentRace = "Dieu"
                       /\ st.collectionRadius <= 1,
                reason |-> "Requis : Dieu + Maîtrise Saiyan"]
    ELSE [ok |-> FALSE, reason |-> "Bloqué"]

\* a table that asks nothing for 'custom_zone'
checkPrerequisite_CustomZoneFree(st, type, id) ==
    IF type = "design" THEN [ok |-> TRUE, reason |-> ""]
    ELSE IF type = "race" THEN
        CASE id = "Cyborg" -> [ok |-> TRUE, reason |-> ""]
          [] id = "Namek"  -> [ok |-> st.collectionRadius <= 25,
                               reason |-> "Requis : Maîtrise Cyborg"]
          [] id = "Démon"  -> [ok |-> st.collectionRadius <= 10,
                               reason |-> "Requis : Maîtrise Namek"]
          [] id = "Saiyan" -> [ok |-> st.currentRace = "Démon",
                               reason |-> "Requis : Évolution Démon"]
          [] id = "Dieu"   -> [ok |-> st.collectionRadius <= 1,
                               reason |-> "Requis : Maîtrise Saiyan"]
          [] OTHER         -> [ok |-> FALSE, reason |-> "Inconnu"]
    ELSE IF type = "mastery" THEN
        LET radius == ParseFloat(id) IN
        CASE radius = 25 -> [ok |-> st.currentRace = "Cyborg",
                             reason |-> "Requis : Race Cyborg"]
          [] radius = 10 -> [ok |-> st.currentRace = "Namek",
                             reason |-> "Requis : Race Namek"]
          [] radius = 1  -> [ok |-> st.currentRace = "Saiyan",
                             reason |-> "Requis : Race Saiyan"]
          [] OTHER       -> [ok |-> FALSE, reason |-> "Inconnu"]
    ELSE IF type = "unlock" /\ id \in Range(SPECIAL_FEATURES) THEN
        CASE id = "scouter" ->
               [ok |-> st.currentRace \in
                         {"Cyborg", "Namek", "Démon", "Saiyan", "Dieu"},
                reason |-> "Requis : Race Cyborg"]
          [] id = "custom_zone" ->
               [ok |-> TRUE,
                reason |-> "Requis : Mode Scouter"]
          [] id = "world_scan" ->
               [ok |-> /\ Includes(st.unlockedFeatures, "custom_zone")
                       /\ st.currentRace = "Dieu"
                       /\ st.collectionRadius <= 1,
                reason |-> "Requis : Dieu + Maîtrise Saiyan"]
    ELSE [ok |-> FALSE, reason |-> "Bloqué"]

checkPrerequisite(st, type, id) ==
    IF type = "design" THEN [ok |-> TRUE, reason |-> ""]
    ELSE IF type = "race" THEN
        CASE id = "Cyborg" -> [ok |-> TRUE, reason |-> ""]
          [] id = "Namek"  -> [ok |-> st.collectionRadius <= 25,
                               reason |-> "Requis : Maîtrise Cyborg"]
          [] id = "Démon"  -> [ok |-> st.collectionRadius <= 10,
                               reason |-> "Requis : Maîtrise Namek"]
          [] id = "Saiyan" -> [ok |-> st.currentRace = "Démon",
                               reason |-> "Requis : Évolution Démon"]
          [] id = "Dieu"   -> [ok |-> st.collectionRadius <= 1,
                               reason |-> "Requis : Maîtrise Saiyan"]
          [] OTHER         -> [ok |-> FALSE, reason |-> "Inconnu"]
    ELSE IF type = "mastery" THEN
        LET radius == ParseFloat(id) IN
        CASE radius = 25 -> [ok |-> st.currentRace = "Cyborg",
                             reason |-> "Requis : Race Cyborg"]
          [] radius = 10 -> [ok |-> st.currentRace = "Namek",
                             reason |-> "Requis : Race Namek"]
          [] radius = 1  -> [ok |-> st.currentRace = "Saiyan",
                             reason |-> "Requis : Race Saiyan"]
          [] OTHER       -> [ok |-> FALSE, reason |-> "Inconnu"]
    ELSE IF type = "unlock" /\ id \in Range(SPECIAL_FEATURES) THEN
        CASE id = "scouter" ->
               [ok |-> st.currentRace \in
                         {"Cyborg", "Namek", "Démon", "Saiyan", "Dieu"},
                reason |-> "Requis : Race Cyborg"]
          [] id = "custom_zone" ->
               [ok |-> Includes(st.unlockedFeatures, "scouter"),
                reason |-> "Requis : Mode Scouter"]
          [] id = "world_scan" ->
               [ok |-> /\ Includes(st.unlockedFeatures, "custom_zone")
                       /\ st.currentRace = "Dieu"
                       /\ st.collectionRadius <= 1,
                reason |-> "Requis : Dieu + Maîtrise Saiyan"]
    ELSE [ok |-> FALSE, reason |-> "Bloqué"]

\* value.toString(): a radius for a mastery wish, a string otherwise
ValueToString(type, value) ==
    IF type = "mastery" THEN RadiusToString(value) ELSE value

\* unlockKey || value.toString()
WishId(type, value, unlockKey) ==
    IF unlockKey # Undefined /\ unlockKey # ""
    THEN unlockKey
    ELSE ValueToString(type, value)

\* a handler that counts the targets of the set, found or not
WishResult_CountsTargets(st, type, value, unlockKey) ==
    IF Len(st.dragonBalls) < Seven THEN "InsufficientTargets"
    ELSE IF ~checkPrerequisite(st, type, WishId(type, value, unlockKey)).ok
         THEN "PrerequisiteNotMet"
         ELSE "Granted"

\* a handler that does not ask checkPrerequisite
WishResult_NoPrerequisite(st, type, value, unlockKey) ==
    IF foundCount(st) < Seven THEN "InsufficientTargets" ELSE "Granted"

\* which return of handleShenronWish the call takes, 186-195
WishResult(st, type, value, unlockKey) ==
    IF foundCount(st) < Seven THEN "InsufficientTargets"
    ELSE IF ~checkPrerequisite(st, type, WishId(type, value, unlockKey)).ok
         THEN "PrerequisiteNotMet"
         ELSE "Granted"

\* an updater that leaves the target set in place
GrantWish_KeepsSet(prev, type, value, unlockKey) ==
    LET s1 == IF type = "design" THEN [prev EXCEPT !.design = value] ELSE prev
        s2 == IF type = "mastery" THEN [s1 EXCEPT !.collectionRadius = value]
                                  ELSE s1
        s3 == IF type = "race" THEN [s2 EXCEPT !.currentRace = value] ELSE s2
    IN  IF /\ unlockKey # Undefined /\ unlockKey # ""
           /\ ~Includes(s3.unlockedFeatures, unlockKey)
        THEN [s3 EXCEPT !.unlockedFeatures = Append(@, unlockKey)]
        ELSE s3

\* an updater that appends the key without looking for it
GrantWish_AppendsAlways(prev, type, value, unlockKey) ==
    LET s1 == IF type = "design" THEN [prev EXCEPT !.design = value] ELSE prev
        s2 == IF type = "mastery" THEN [s1 EXCEPT !.collectionRadius = value]
                                  ELSE s1
        s3 == IF type = "race" THEN [s2 EXCEPT !.currentRace = value] ELSE s2
        s4 == IF unlockKey # Undefined /\ unlockKey # ""
              THEN [s3 EXCEPT !.unlockedFeatures = Append(@, unlockKey)]
              ELSE s3
    IN  [s4 EXCEPT !.dragonBalls = <<>>]

\* an updater whose race wish also takes the radius back to the first tier
GrantWish_RaceResetsRadius(prev, type, value, unlockKey) ==
    LET s1 == IF type = "design" THEN [prev EXCEPT !.design = value] ELSE prev
        s2 == IF type = "mastery" THEN [s1 EXCEPT !.collectionRadius = value]
                                  ELSE s1
        s3 == IF type = "race"
              THEN [s2 EXCEPT !.currentRace = value, !.collectionRadius = 50]
              ELSE s2
        s4 == IF /\ unlockKey # Undefined /\ unlockKey # ""
                 /\ ~Includes(s3.unlockedFeatures, unlockKey)
              THEN [s3 EXCEPT !.unlockedFeatures = Append(@, unlockKey)]
              ELSE s3
    IN  [s4 EXCEPT !.dragonBalls = <<>>]

\* the updater of a granted wish, 197-210
GrantWish(prev, type, value, unlockKey) ==
    LET s1 == IF type = "design" THEN [prev EXCEPT !.design = value] ELSE prev
        s2 == IF type = "mastery" THEN [s1 EXCEPT !.collectionRadius = value]
                                  ELSE s1
        s3 == IF type = "race" THEN [s2 EXCEPT !.currentRace = value] ELSE s2
        s4 == IF /\ unlockKey # Undefined /\ unlockKey # ""
                 /\ ~Includes(s3.unlockedFeatures, unlockKey)
              THEN [s3 EXCEPT !.unlockedFeatures = Append(@, unlockKey)]
              ELSE s3
    IN  [s4 EXCEPT !.dragonBalls = <<>>]

\* the requests in flight when the target set moves to another generation:
\* their results, when they arrive, are late
Outdated(requests) ==
    [k \in DOMAIN requests |-> [requests[k] EXCEPT !.stale = TRUE]]

handleShenronWish(type, value, unlockKey) ==
    LET result == WishResult(state, type, value, unlockKey) IN
    /\ mounted
    /\ ~AlertShown
    /\ lastWish' = [type |-> type, id |-> WishId(type, value, unlockKey),
                    result |-> result]
    /\ UNCHANGED radarStep
    /\ IF result = "Granted"
       THEN /\ Render(GrantWish(state, type, value, unlockKey), TRUE)
            /\ inFlight' = Outdated(inFlight)
            /\ pastRaces' = pastRaces \cup
                   {GrantWish(state, type, value, unlockKey).currentRace}
       ELSE UNCHANGED <<state, effectDue, inFlight, storage, mounted,
                        pastRaces>>

\* the player closes the alert of a rejected wish
DismissAlert ==
    /\ mounted
    /\ UNCHANGED pastRaces
    /\ AlertShown
    /\ lastWish' = NoWish
    /\ UNCHANGED <<state, effectDue, inFlight, radarStep, storage, mounted>>

\* the buttons of the wish screen, 387-393, 428-433, 476-483, 497-504
DesignButton(d) == handleShenronWish("design", d, Undefined)

RaceButton(r) == handleShenronWish("race", r, Undefined)

\* MASTERY_LEVELS.find(m => m.radius < state.collectionRadius)
\* (the set of the tiers found; find returns the first of them)
TiersBelow(st) ==
    {i \in DOMAIN MASTERY_LEVELS : MASTERY_LEVELS[i] < st.collectionRadius}

NextMastery(st) ==
    MASTERY_LEVELS[CHOOSE i \in TiersBelow(st) : \A j \in TiersBelow(st) : i <= j]

MasteryButton ==
    /\ state.collectionRadius > 1
    /\ TiersBelow(state) # {}
    /\ handleShenronWish("mastery", NextMastery(state), Undefined)

UnlockButton(f) == handleShenronWish("unlock", "", f)

----------------------------------------------------------------------------
(* The scan: searchBalls, src/App.tsx 128-139, and the oracle client         *)
(* generateValidCoordinates, src/services/geminiService.ts 7-71              *)

\* the lengths of the arrays the oracle replies with
ReplyLengths == {0, 3, Seven, MaxItems}

\* the array of n items {name, lat, lng} placed as layout l, repeated
ReplyItems(l, n) ==
    [i \in 1..n |-> [name |-> "Parc", lat |-> l[((i - 1) % Seven) + 1], lng |-> 0]]

\* what the call of the oracle and JSON.parse make of its reply: an array, a
\* value that is no array, an exception of the call ("throw"), or an exception
\* of JSON.parse for a text that is no JSON ("unparsable")
FailedKinds == {"nonarray", "throw", "unparsable"}

OracleReplies ==
    {[kind |-> "array", items |-> ReplyItems(l, n)] :
        l \in Layouts, n \in ReplyLengths}
    \cup {[kind |-> k, items |-> <<>>] : k \in FailedKinds}

\* data.slice(0, 7)
Slice7(data) == IF Len(data) <= Seven THEN data ELSE SubSeq(data, 1, Seven)

\* the offsets dLat the seven draws of Math.random can give from userLoc:
\* |dLat| is dist * |cos(angle)| with dist < rangeKm
FallbackDraws(userLoc, rangeKm) ==
    {d \in {[i \in 1..Seven |-> l[i] - userLoc.lat] : l \in Layouts} :
        \A i \in 1..Seven : Abs(d[i]) < rangeKm * 1000}

fallbackName(i) ==
    <<"Inconnue - Zone 1", "Inconnue - Zone 2", "Inconnue - Zone 3",
      "Inconnue - Zone 4", "Inconnue - Zone 5", "Inconnue - Zone 6",
      "Inconnue - Zone 7">>[i]

\* a catch branch that makes one zone less
fallbackGeneration_SixZones(userLoc, draws) ==
    [i \in 1..(Seven - 1) |->
        [id |-> i, lat |-> userLoc.lat + draws[i], lng |-> userLoc.lng,
         stars |-> i, found |-> FALSE, name |-> fallbackName(i)]]

\* the catch branch, 52-70
fallbackGeneration(userLoc, draws) ==
    [i \in 1..Seven |->
        [id |-> i, lat |-> userLoc.lat + draws[i], lng |-> userLoc.lng,
         stars |-> i, found |-> FALSE, name |-> fallbackName(i)]]

\* a catch branch that passes the exception on to the caller
generateValidCoordinates_Rethrows(userLoc, reply, draws) ==
    IF reply.kind = "array"
    THEN LET data == Slice7(reply.items) IN
         [status |-> "fulfilled",
          value  |-> [index \in DOMAIN data |->
            [id |-> index, lat |-> data[index].lat, lng |-> data[index].lng,
             stars |-> index, found |-> FALSE, name |-> data[index].name]]]
    ELSE [status |-> "rejected", value |-> <<>>]

\* how the promise of generateValidCoordinates settles, and with what
generateValidCoordinates(userLoc, reply, draws) ==
    IF reply.kind = "array"
    THEN LET data == Slice7(reply.items) IN
         [status |-> "fulfilled",
          value  |-> [index \in DOMAIN data |->
            [id |-> index, lat |-> data[index].lat, lng |-> data[index].lng,
             stars |-> index, found |-> FALSE, name |-> data[index].name]]]
    ELSE [status |-> "fulfilled", value |-> fallbackGeneration(userLoc, draws)]

\* a scan button that stays enabled while a scan is loading
ScanEnabled_WhileLoading(st) == effectiveCenter(st) # Null

\* the scan button, 717: disabled={state.isLoading || !effectiveCenter}
ScanEnabled(st) == ~st.isLoading /\ effectiveCenter(st) # Null

\* searchBalls up to its await, 128-132
searchBalls ==
    /\ mounted
    /\ UNCHANGED pastRaces
    /\ ~AlertShown
    /\ UNCHANGED radarStep
    /\ IF effectiveCenter(state) = Null
       THEN /\ lastWish' = [type |-> "scan", id |-> "", result |-> "NoCenter"]
            /\ UNCHANGED <<state, effectDue, inFlight, storage, mounted>>
       ELSE /\ Len(inFlight) < MaxInFlight
            /\ Render([state EXCEPT !.isLoading = TRUE, !.error = NoError],
                      FALSE)
            /\ inFlight' = Append(inFlight,
                                  [center |-> effectiveCenter(state),
                                   range |-> state.range, stale |-> FALSE])
            /\ lastWish' = NoWish

\* the scan button
SearchBalls ==
    /\ ScanEnabled(state)
    /\ searchBalls

RemoveAt(seq, k) == SubSeq(seq, 1, k - 1) \o SubSeq(seq, k + 1, Len(seq))

\* searchBalls after its await: request k is answered
ScanComplete(k, reply, draws) ==
    LET settled == generateValidCoordinates(inFlight[k].center, reply, draws) IN
    /\ mounted
    /\ UNCHANGED pastRaces
    /\ ~AlertShown
    /\ IF settled.status = "fulfilled"
       THEN /\ Render([state EXCEPT !.dragonBalls = settled.value,
                                    !.isLoading = FALSE], TRUE)
            /\ radarStep' = 0
       ELSE /\ Render([state EXCEPT !.error = "Erreur de scan.",
                                    !.isLoading = FALSE], FALSE)
            /\ UNCHANGED radarStep
    /\ inFlight' = RemoveAt(inFlight, k)
    /\ lastWish' = NoWish

----------------------------------------------------------------------------
(* The radar view: the zoom step, src/App.tsx 241-247, 588 and 660, and the *)
(* RadarUI component, src/components/RadarUI.tsx                            *)

\* a table whose last zoom is a tenth
Multipliers_Tenth == <<1000, 500, 200, 100, 1000>>

\* multipliers[radarStep] || 1, as metres of radar range per km of range
Multipliers == <<1000, 500, 200, 50, 1000>>

\* currentRadarRange, in metres
currentRadarRange(st, step) ==
    IF st.range >= 20000 THEN 20000 * 1000
    ELSE st.range * Multipliers[step + 1]

isMapView(step) == step = 4

\* getRelativePos, in percent of the side of the radar; range in metres
getRelativePos(userLoc, range, lat, lng) ==
    [x |-> 50 + ((lng - userLoc.lng) * 50) \div range,
     y |-> 50 - ((lat - userLoc.lat) * 50) \div range]

\* the indices of the targets RadarUI returns a button for
RadarUI(range, userLoc, balls) ==
    IF userLoc = Null THEN {}
    ELSE {i \in DOMAIN balls :
            LET pos == getRelativePos(userLoc, range, balls[i].lat, balls[i].lng)
            IN  ~(pos.x < 0 \/ pos.x > 100 \/ pos.y < 0 \/ pos.y > 100)}

\* the targets on the radar of the render of (st, step), 593-595
Rendered(st, step) ==
    IF isMapView(step) THEN {}
    ELSE RadarUI(currentRadarRange(st, step), effectiveCenter(st),
                 st.dragonBalls)

\* a tap on the radar, 588: the handler is there unless the map is shown
RadarTap ==
    /\ mounted
    /\ UNCHANGED pastRaces
    /\ ~AlertShown
    /\ ~isMapView(radarStep)
    /\ radarStep' = (radarStep + 1) % 5
    /\ Flush
    /\ UNCHANGED inFlight
    /\ lastWish' = NoWish

\* RETOUR RADAR, 657-665: the button is there while the map is shown
ReturnButton ==
    /\ mounted
    /\ UNCHANGED pastRaces
    /\ ~AlertShown
    /\ isMapView(radarStep)
    /\ radarStep' = 0
    /\ Flush
    /\ UNCHANGED inFlight
    /\ lastWish' = NoWish

----------------------------------------------------------------------------
(* The range panel, src/App.tsx 671-714, shown unless the map is, and the   *)
(* form of the custom range, 249-257 and 275-300                            *)

PresetRanges == <<1, 10, 100, 1000, 20000>>

\* an updater that also drops the target set
SetRange_ClearsSet(prev, val) ==
    [prev EXCEPT !.range = val, !.scanCenter = Null, !.dragonBalls = <<>>]

\* the updater of a change of range, 254 and 705
SetRange(prev, val) == [prev EXCEPT !.range = val, !.scanCenter = Null]

\* a panel that shows the planet button whatever is unlocked
RangeButton_Ungated(r) ==
    /\ mounted
    /\ UNCHANGED pastRaces
    /\ ~AlertShown
    /\ ~isMapView(radarStep)
    /\ r \in Range(PresetRanges)
    /\ Render(SetRange(state, r), FALSE)
    /\ UNCHANGED <<inFlight, radarStep>>
    /\ lastWish' = [type |-> "range", id |-> "", result |-> "Preset"]

\* a range button, 680-712: the planet button is there with 'world_scan'
RangeButton(r) ==
    /\ mounted
    /\ UNCHANGED pastRaces
    /\ ~AlertShown
    /\ ~isMapView(radarStep)
    /\ r \in Range(PresetRanges)
    /\ r = 20000 => Includes(state.unlockedFeatures, "world_scan")
    /\ Render(SetRange(state, r), FALSE)
    /\ UNCHANGED <<inFlight, radarStep>>
    /\ lastWish' = [type |-> "range", id |-> "", result |-> "Preset"]

\* the texts submitted in the form of the custom range
CustomTexts == {"", "abc", "0", "-5", "126", "20000"}

\* parseInt of a text of CustomTexts
ParseInt(text) ==
    CASE text = "0"     -> 0
      [] text = "-5"    -> -5
      [] text = "126"   -> 126
      [] text = "20000" -> 20000
      [] OTHER          -> NaN

\* a handler that clamps from above only
customRange_NoFloor(text) ==
    LET val == ParseInt(text)
        low == IF val = NaN THEN 1 ELSE val
    IN  IF low > 10000 THEN 10000 ELSE low

\* the value handleCustomRangeSubmit stores, 251-253
customRange(text) ==
    LET val == ParseInt(text)
        low == IF val = NaN \/ val < 1 THEN 1 ELSE val
    IN  IF low > 10000 THEN 10000 ELSE low

\* the form opened by the keyboard button, 684-697 (there with
\* 'custom_zone'), and submitted with customRangeValue = text
handleCustomRangeSubmit(text) ==
    /\ mounted
    /\ UNCHANGED pastRaces
    /\ ~AlertShown
    /\ ~isMapView(radarStep)
    /\ Includes(state.unlockedFeatures, "custom_zone")
    /\ Render(SetRange(state, customRange(text)), FALSE)
    /\ UNCHANGED <<inFlight, radarStep>>
    /\ lastWish' = [type |-> "range", id |-> text, result |-> "Custom"]

----------------------------------------------------------------------------
(* The radar on its own: what RadarUI shows of a target set at each zoom     *)
(* step                                                                      *)

\* the offsets north and east, in metres, of the target looked at
RadarOffsets == {2000 * n : n \in -6..6}

\* the radar looked at after a scan of 10 km around the player gave a set
\* whose first target lies north and east by offsets of RadarOffsets and
\* whose other targets lie where the player is
InitRadar ==
    \E north \in RadarOffsets, east \in RadarOffsets :
       LET items == [ReplyItems(<<0, 0, 0, 0, 0, 0, 0>>, Seven)
                        EXCEPT ![1].lat = north, ![1].lng = east]
           settled == generateValidCoordinates(
                         Location(0), [kind |-> "array", items |-> items],
                         <<0, 0, 0, 0, 0, 0, 0>>)
           st == [defaultState EXCEPT !.userLocation = Location(0),
                                      !.dragonBalls = settled.value]
       IN  /\ state = st
           /\ effectDue = TRUE
           /\ inFlight = <<>>
           /\ lastWish = NoWish
           /\ radarStep = 0
           /\ storage = [NoItem EXCEPT !.kind = "json", !.text = Stringify(st)]
           /\ mounted = TRUE
           /\ pastRaces = {"Terrien"}

NextRadar ==
    \/ RadarTap
    \/ ReturnButton
    \/ CollectionPass

SpecRadar == InitRadar /\ [][NextRadar]_vars

----------------------------------------------------------------------------
(* The program *)

\* the inputs the player and the sensor give
DesignChoices == {"bulma", "capsule"}
RangeChoices == {20000}

\* the first start of the page: no item in localStorage; the first render
\* has written the snapshot of defaultState
Init ==
    /\ state = defaultState
    /\ effectDue = TRUE
    /\ inFlight = <<>>
    /\ lastWish = NoWish
    /\ radarStep = 0
    /\ storage = [NoItem EXCEPT !.kind = "json",
                                !.text = Stringify(defaultState)]
    /\ mounted = TRUE
    /\ pastRaces = {"Terrien"}

Next ==
    \/ \E p \in SensorPlaces : PositionUpdate(p)
    \/ PositionError
    \/ CollectionPass
    \/ SearchBalls
    \/ \E k \in DOMAIN inFlight, reply \in OracleReplies :
          \E draws \in FallbackDraws(inFlight[k].center, inFlight[k].range) :
             ScanComplete(k, reply, draws)
    \/ \E d \in DesignChoices : DesignButton(d)
    \/ \E r \in Range(RACES) : RaceButton(r)
    \/ MasteryButton
    \/ \E f \in Range(SPECIAL_FEATURES) : UnlockButton(f)
    \/ DismissAlert
    \/ \E r \in RangeChoices : RangeButton(r)

Spec == Init /\ [][Next]_vars

----------------------------------------------------------------------------
(* The handlers called in any state: handleShenronWish with any mastery     *)
(* tier of MASTERY_LEVELS, not only with the tier the mastery button        *)
(* computes (the handler takes the radius as an argument, src/App.tsx 185), *)
(* and searchBalls whether or not the scan button is enabled.               *)

MasteryWish(m) == handleShenronWish("mastery", m, Undefined)

\* the replies of the oracle that are arrays of seven items
FullReplies ==
    {reply \in OracleReplies : reply.kind = "array" /\ Len(reply.items) = Seven}

NextHandler ==
    \/ \E p \in SensorPlaces : PositionUpdate(p)
    \/ CollectionPass
    \/ searchBalls
    \/ \E k \in DOMAIN inFlight, reply \in FullReplies :
          \E draws \in FallbackDraws(inFlight[k].center, inFlight[k].range) :
             ScanComplete(k, reply, draws)
    \/ \E r \in Range(RACES) : RaceButton(r)
    \/ \E m \in Range(MASTERY_LEVELS) : MasteryWish(m)
    \/ DismissAlert

SpecHandler == Init /\ [][NextHandler]_vars

----------------------------------------------------------------------------
(* The scan with replies of the oracle that parse to an array but whose     *)
(* first item has no numeric lat, or an empty name.                         *)

MalformedReplies ==
    {[kind |-> "array", items |-> [ReplyItems(l, Seven) EXCEPT ![1].lat = NaN]] :
        l \in Layouts}
    \cup {[kind |-> "array",
           items |-> [ReplyItems(l, Seven) EXCEPT ![1].name = ""]] :
                l \in Layouts}

NextOracle ==
    \/ \E p \in SensorPlaces : PositionUpdate(p)
    \/ CollectionPass
    \/ SearchBalls
    \/ \E k \in DOMAIN inFlight, reply \in OracleReplies \cup MalformedReplies :
          \E draws \in FallbackDraws(inFlight[k].center, inFlight[k].range) :
             ScanComplete(k, reply, draws)

SpecOracle == Init /\ [][NextOracle]_vars

----------------------------------------------------------------------------
(* The scan under fairness: the oracle settles every request (the promise   *)
(* is resolved or rejected by the network layer) and its continuation runs  *)
(* as soon as the page is not blocked by an alert, which the player closes. *)

OracleSettles ==
    \E k \in DOMAIN inFlight, reply \in OracleReplies :
       \E draws \in FallbackDraws(inFlight[k].center, inFlight[k].range) :
          ScanComplete(k, reply, draws)

NextScan ==
    \/ \E p \in SensorPlaces : PositionUpdate(p)
    \/ PositionError
    \/ CollectionPass
    \/ SearchBalls
    \/ OracleSettles
    \/ RaceButton("Cyborg")
    \/ DismissAlert

SpecScanFair ==
    /\ Init
    /\ [][NextScan]_vars
    /\ SF_vars(OracleSettles)
    /\ WF_vars(DismissAlert)

----------------------------------------------------------------------------
(* The page started again from what localStorage holds, and what can happen *)
(* to localStorage outside the page.                                        *)

\* the page is loaded: the initializer of useState, 67-82, the first render
\* and its persistence effect.  JSON.parse throws for a text that is no JSON.
Restart ==
    /\ inFlight' = <<>>
    /\ radarStep' = 0
    /\ effectDue' = TRUE
    /\ IF storage.kind = "corrupt"
       THEN /\ lastWish' = [type |-> "start", id |-> storage.kind,
                            result |-> "InitializerThrew"]
            /\ mounted' = FALSE
            /\ UNCHANGED <<state, storage>>
       ELSE LET saved == IF storage.kind = "absent" THEN Null
                         ELSE JsonParse(storage.text)
                s0 == IF saved = Null THEN defaultState ELSE Restore(saved)
            IN  /\ state' = s0
                /\ IF storage.full
                   THEN /\ lastWish' = [type |-> "start", id |-> storage.kind,
                                        result |-> "SetItemThrew"]
                        /\ mounted' = FALSE
                        /\ UNCHANGED storage
                   ELSE /\ lastWish' = [type |-> "start", id |-> storage.kind,
                                        result |-> "Mounted"]
                        /\ mounted' = TRUE
                        /\ storage' = [storage EXCEPT !.kind = "json",
                                                      !.text = Stringify(s0)]
    /\ pastRaces' = pastRaces \cup {state'.currentRace}

\* localStorage has no room left: setItem throws from now on
StorageFills ==
    /\ ~AlertShown
    /\ UNCHANGED pastRaces
    /\ ~storage.full
    /\ storage' = [storage EXCEPT !.full = TRUE]
    /\ lastWish' = NoWish
    /\ UNCHANGED <<state, effectDue, inFlight, radarStep, mounted>>

\* the item is overwritten by a text that is no JSON
SnapshotCorrupted ==
    /\ ~AlertShown
    /\ UNCHANGED pastRaces
    /\ storage.kind = "json"
    /\ storage' = [storage EXCEPT !.kind = "corrupt", !.text = <<>>]
    /\ lastWish' = NoWish
    /\ UNCHANGED <<state, effectDue, inFlight, radarStep, mounted>>

\* the keys a version of the page that wrote an older snapshot did not have
LaterKeys == {"collectionRadius", "unlockedFeatures", "currentRace"}

\* the item is a snapshot of an older version: it has no member for LaterKeys
OlderSnapshot ==
    /\ ~AlertShown
    /\ UNCHANGED pastRaces
    /\ storage.kind = "json"
    /\ Len(storage.text) = Len(Keys)
    /\ storage' = [storage EXCEPT
                      !.text = SelectSeq(@, LAMBDA m : m.key \notin LaterKeys)]
    /\ lastWish' = NoWish
    /\ UNCHANGED <<state, effectDue, inFlight, radarStep, mounted>>

NextPersist ==
    \/ \E p \in SensorPlaces : PositionUpdate(p)
    \/ CollectionPass
    \/ SearchBalls
    \/ \E k \in DOMAIN inFlight, reply \in FullReplies :
          \E draws \in FallbackDraws(inFlight[k].center, inFlight[k].range) :
             ScanComplete(k, reply, draws)
    \/ RaceButton("Cyborg")
    \/ DismissAlert
    \/ Restart
    \/ StorageFills
    \/ SnapshotCorrupted
    \/ OlderSnapshot

SpecPersist == Init /\ [][NextPersist]_vars

----------------------------------------------------------------------------
(* The radar and the range panel through the whole progression: the player  *)
(* stays at one place, every scan gives seven targets at that place, the    *)
(* player makes the wishes that are granted, taps the radar, returns from   *)
(* the map, presses the range buttons and submits custom ranges.            *)

\* the reply of the oracle: seven targets where the player is
PanelReply ==
    [kind |-> "array", items |-> ReplyItems(<<0, 0, 0, 0, 0, 0, 0>>, Seven)]

\* handleShenronWish would grant this wish
Grantable(type, value, unlockKey) ==
    WishResult(state, type, value, unlockKey) = "Granted"

NextPanel ==
    \/ PositionUpdate(0)
    \/ CollectionPass
    \/ SearchBalls
    \/ \E k \in DOMAIN inFlight :
          ScanComplete(k, PanelReply, <<0, 0, 0, 0, 0, 0, 0>>)
    \/ \E r \in Range(RACES) :
          Grantable("race", r, Undefined) /\ RaceButton(r)
    \/ /\ TiersBelow(state) # {}
       /\ Grantable("mastery", NextMastery(state), Undefined)
       /\ MasteryButton
    \/ \E f \in Range(SPECIAL_FEATURES) :
          Grantable("unlock", "", f) /\ UnlockButton(f)
    \/ RadarTap
    \/ ReturnButton
    \/ \E r \in Range(PresetRanges) : RangeButton(r)
    \/ \E text \in CustomTexts : handleCustomRangeSubmit(text)

SpecPanel == Init /\ [][NextPanel]_vars

----------------------------------------------------------------------------
(* The progression variant, src/unnamed/part_002: the same session state,   *)
(* sensor, scan and collection effect, another table of races, and wishes   *)
(* gated by the buttons of the wish screen instead of checkPrerequisite.    *)
(* The player stays at one place, every scan gives seven targets at that    *)
(* place, and the player presses the race buttons, the distance buttons and *)
(* the button of the planet scan.                                           *)

\* RACES_DATA, 27-38; radius in metres
RACES_DATA ==
    << [id |-> "Terrien",   radius |-> 50,
        wishId |-> "race_terrien",   distWishId |-> "dist_terrien"],
       [id |-> "Namek",     radius |-> 150,
        wishId |-> "race_namek",     distWishId |-> "dist_namek"],
       [id |-> "Kaio",      radius |-> 300,
        wishId |-> "race_kaio",      distWishId |-> "dist_kaio"],
       [id |-> "Cyborg",    radius |-> 600,
        wishId |-> "race_cyborg",    distWishId |-> "dist_cyborg"],
       [id |-> "Majin",     radius |-> 1200,
        wishId |-> "race_majin",     distWishId |-> "dist_majin"],
       [id |-> "Froid",     radius |-> 3000,
        wishId |-> "race_froid",     distWishId |-> "dist_froid"],
       [id |-> "Saiyan",    radius |-> 7000,
        wishId |-> "race_saiyan",    distWishId |-> "dist_saiyan"],
       [id |-> "Hakaishin", radius |-> 15000,
        wishId |-> "race_hakaishin", distWishId |-> "dist_hakaishin"],
       [id |-> "Ange",      radius |-> 40000,
        wishId |-> "race_ange",      distWishId |-> "dist_ange"],
       [id |-> "Zeno",      radius |-> 100000,
        wishId |-> "race_zeno",      distWishId |-> "dist_zeno"] >>

\* the default state of the variant, 65-76
progressionDefault ==
    [defaultState EXCEPT !.unlockedFeatures = <<"race_terrien", "dist_terrien">>]

hasSevenBalls(st) == foundCount(st) = Seven

isUnlocked(st, wishId) == Includes(st.unlockedFeatures, wishId)

\* a wish screen that never locks a race for its dependency
canUnlockRace_Always(st, raceIndex) == TRUE

\* canUnlockRace, 193-197; raceIndex counts from 1 here, from 0 in the source
canUnlockRace(st, raceIndex) ==
    IF raceIndex = 1 THEN TRUE
    ELSE isUnlocked(st, RACES_DATA[raceIndex - 1].distWishId)

\* canUnlockDist, 199-202
canUnlockDist(st, raceIndex) == isUnlocked(st, RACES_DATA[raceIndex].wishId)

allProgressionsUnlocked(st) ==
    \A i \in DOMAIN RACES_DATA :
       isUnlocked(st, RACES_DATA[i].wishId) /\ isUnlocked(st, RACES_DATA[i].distWishId)

\* parseFloat of a text of CustomTexts (none has a fraction)
ParseFloatText(text) == ParseInt(text)

\* the updater of handleShenronWish of the variant, 151-172; value is the
\* entry of RACES_DATA for a race, the radius for a dist, the text for a range
progressionUpdater(prev, type, value, wishId) ==
    IF type = "design" THEN [prev EXCEPT !.design = value]
    ELSE LET s1 == [prev EXCEPT !.dragonBalls = <<>>]
             s2 == IF /\ wishId # Undefined /\ wishId # ""
                      /\ ~Includes(s1.unlockedFeatures, wishId)
                   THEN [s1 EXCEPT !.unlockedFeatures = Append(@, wishId)]
                   ELSE s1
         IN  CASE type = "race" -> [s2 EXCEPT !.currentRace = value.id]
               [] type = "dist" -> [s2 EXCEPT !.collectionRadius = value]
               [] type = "range" ->
                    [s2 EXCEPT !.range =
                        IF ParseFloatText(value) \in {NaN, 0} THEN prev.range
                        ELSE ParseFloatText(value)]
               [] type = "world_scan" -> [s2 EXCEPT !.range = 20000]
               [] OTHER -> s2

\* handleShenronWish of the variant, 148-175: a wish other than a design is
\* ignored without the seven targets found
progressionWish(type, value, wishId) ==
    /\ mounted
    /\ ~AlertShown
    /\ lastWish' = NoWish
    /\ UNCHANGED radarStep
    /\ IF type # "design" /\ ~hasSevenBalls(state)
       THEN UNCHANGED <<state, effectDue, inFlight, storage, mounted, pastRaces>>
       ELSE /\ Render(progressionUpdater(state, type, value, wishId),
                      type # "design")
            /\ inFlight' = IF type = "design" THEN inFlight
                           ELSE Outdated(inFlight)
            /\ pastRaces' = pastRaces \cup
                   {progressionUpdater(state, type, value, wishId).currentRace}

\* the button of race idx, 318-333: disabled={isLocked || active}
RaceWishButton(idx) ==
    /\ canUnlockRace(state, idx)
    /\ hasSevenBalls(state) \/ isUnlocked(state, RACES_DATA[idx].wishId)
    /\ state.currentRace # RACES_DATA[idx].id
    /\ progressionWish("race", RACES_DATA[idx], RACES_DATA[idx].wishId)

\* the button of the distance of race idx, 342-356
DistWishButton(idx) ==
    /\ canUnlockDist(state, idx)
    /\ hasSevenBalls(state) \/ isUnlocked(state, RACES_DATA[idx].distWishId)
    /\ state.collectionRadius # RACES_DATA[idx].radius
    /\ progressionWish("dist", RACES_DATA[idx].radius, RACES_DATA[idx].distWishId)

\* the button of the planet scan, 379
WorldScanWishButton ==
    /\ allProgressionsUnlocked(state)
    /\ hasSevenBalls(state) \/ isUnlocked(state, "tech_world_scan")
    /\ progressionWish("world_scan", "", "tech_world_scan")

\* the first start of the page of the variant
InitProgression ==
    /\ state = progressionDefault
    /\ effectDue = TRUE
    /\ inFlight = <<>>
    /\ lastWish = NoWish
    /\ radarStep = 0
    /\ storage = [NoItem EXCEPT !.kind = "json",
                                !.text = Stringify(progressionDefault)]
    /\ mounted = TRUE
    /\ pastRaces = {"Terrien"}

NextProgression ==
    \/ PositionUpdate(0)
    \/ CollectionPass
    \/ SearchBalls
    \/ \E k \in DOMAIN inFlight :
          ScanComplete(k, PanelReply, <<0, 0, 0, 0, 0, 0, 0>>)
    \/ \E idx \in DOMAIN RACES_DATA : RaceWishButton(idx)
    \/ \E idx \in DOMAIN RACES_DATA : DistWishButton(idx)
    \/ WorldScanWishButton

SpecProgression == InitProgression /\ [][NextProgression]_vars

----------------------------------------------------------------------------
(* Steps and states the properties speak of *)

GatedTypes == {"race", "mastery", "unlock"}

\* this step is a call of handleShenronWish
WishStep ==
    /\ ~AlertShown
    /\ lastWish'.type \in {"design", "race", "mastery", "unlock"}

\* this step is a call of handleShenronWish that was granted
GrantStep == WishStep /\ lastWish'.result = "Granted"

\* this step answers a scan request
ScanCompleteStep == Len(inFlight') < Len(inFlight)

\* this step replaces the target set by another one
NewGeneration == GrantStep \/ ScanCompleteStep

Modifiers(st) ==
    <<st.design, st.currentRace, st.collectionRadius, st.unlockedFeatures>>

----------------------------------------------------------------------------
(* C1: a gated wish (race, mastery, unlock) made while fewer than 7 targets *)
(* are found is rejected, whether or not its prerequisite holds: design,    *)
(* currentRace, collectionRadius, unlockedFeatures and the target set stay  *)
(* as they were.                                                            *)
C1_InsufficientTargets ==
    [][ (WishStep /\ lastWish'.type \in GatedTypes /\ foundCount(state) < 7)
          => /\ lastWish'.result = "InsufficientTargets"
             /\ Modifiers(state') = Modifiers(state)
             /\ state'.dragonBalls = state.dragonBalls ]_vars

\* a gated wish whose prerequisite holds has just been rejected with some,
\* but not all, targets found
C1_Witness ==
    /\ lastWish.type \in GatedTypes
    /\ lastWish.result = "InsufficientTargets"
    /\ checkPrerequisite(state, lastWish.type, lastWish.id).ok
    /\ foundCount(state) \in 1..6

(* C2: a gated wish made with all 7 targets found whose prerequisite does   *)
(* not hold is rejected: the modifiers are unchanged and the target set is  *)
(* kept, still with 7 found.                                                *)
C2_PrerequisiteNotMet ==
    [][ (/\ WishStep /\ lastWish'.type \in GatedTypes
         /\ foundCount(state) = 7
         /\ ~checkPrerequisite(state, lastWish'.type, lastWish'.id).ok)
          => /\ lastWish'.result = "PrerequisiteNotMet"
             /\ Modifiers(state') = Modifiers(state)
             /\ state'.dragonBalls = state.dragonBalls
             /\ foundCount(state') = 7 ]_vars

\* a Namek wish has just been rejected for its prerequisite, and the 7 found
\* targets can still pay for the Cyborg wish
C2_Witness ==
    /\ lastWish = [type |-> "race", id |-> "Namek", result |-> "PrerequisiteNotMet"]
    /\ foundCount(state) = 7
    /\ WishResult(state, "race", "Cyborg", Undefined) = "Granted"

(* C3: a granted wish is paid with 7 found targets and empties the target   *)
(* set, and an empty target set is filled again only by the completion of a *)
(* scan: between two granted wishes a scan completes and the 7 targets of   *)
(* the new set are found.                                                   *)
C3_GrantConsumesSet ==
    /\ [][ GrantStep => /\ foundCount(state) = 7
                        /\ state'.dragonBalls = <<>> ]_vars
    /\ [][ (state.dragonBalls = <<>> /\ state'.dragonBalls # <<>>)
              => ScanCompleteStep ]_vars

\* a second wish has been granted: the mastery wish needs the Cyborg wish
C3_Witness ==
    /\ lastWish = [type |-> "mastery", id |-> "0.025", result |-> "Granted"]
    /\ state.collectionRadius = 25
    /\ state.dragonBalls = <<>>

(* C4: a design wish is always granted, whatever the number of found        *)
(* targets, and consumes nothing: design becomes the design asked for and   *)
(* the target set, found flags included, is unchanged.                      *)
C4_DesignWishFree ==
    [][ (WishStep /\ lastWish'.type = "design")
          => /\ state'.design = lastWish'.id
             /\ state'.dragonBalls = state.dragonBalls ]_vars

(* C5: within one generation of the target set (no scan completes, no wish  *)
(* is granted) the target set keeps its targets and a found flag that is    *)
(* true stays true, whatever the sensor reports.                            *)
C5_FoundIsMonotonic ==
    [][ ~NewGeneration
          => /\ Len(state'.dragonBalls) = Len(state.dragonBalls)
             /\ \A i \in DOMAIN state.dragonBalls :
                   /\ state'.dragonBalls[i].id = state.dragonBalls[i].id
                   /\ state.dragonBalls[i].found => state'.dragonBalls[i].found
       ]_vars

\* the distance from the player to ball i of the state
DistanceTo(st, i) ==
    calculateDistance(st.userLocation.lat, st.userLocation.lng,
                      st.dragonBalls[i].lat, st.dragonBalls[i].lng)

\* after a sensor error and every pending pass, a found target is farther
\* from the player than collectionRadius
C5_Witness ==
    /\ state.error = "GPS requis."
    /\ state.userLocation # Null
    /\ ~effectDue
    /\ \E i \in DOMAIN state.dragonBalls :
          /\ state.dragonBalls[i].found
          /\ DistanceTo(state, i) >= state.collectionRadius

\* the collection effect runs in this step, alone or ahead of a render
PassStep ==
    /\ effectDue
    /\ ~AlertShown
    /\ lastWish'.result \notin {"InsufficientTargets", "PrerequisiteNotMet"}

(* C6: in a step that keeps the target set, a target is found afterwards    *)
(* if and only if it was found before, or the collection effect ran and the *)
(* distance from userLocation to the target is strictly less than           *)
(* collectionRadius.                                                        *)
C6_StrictThreshold ==
    [][ ~NewGeneration
          => \A i \in DOMAIN state.dragonBalls \cap DOMAIN state'.dragonBalls :
                state'.dragonBalls[i].found
                  <=> \/ state.dragonBalls[i].found
                      \/ /\ PassStep
                         /\ state.userLocation # Null
                         /\ DistanceTo(state, i) < state.collectionRadius
       ]_vars

\* every pass has run; a target 49 m away is found with the radius of 50 m,
\* one at exactly 50 m is not
C6_Witness ==
    /\ ~effectDue
    /\ state.userLocation # Null
    /\ state.collectionRadius = 50
    /\ \E i, j \in DOMAIN state.dragonBalls :
          /\ state.dragonBalls[i].found /\ DistanceTo(state, i) = 49
          /\ ~state.dragonBalls[j].found /\ DistanceTo(state, j) = 50

(* C7: the collection pass is idempotent, and once a pass has written the   *)
(* target set, with userLocation and collectionRadius unchanged, the effect *)
(* is due once more and that pass writes nothing.                           *)
C7_PassIsIdempotent ==
    /\ [](  (state.userLocation # Null /\ state.dragonBalls # <<>>)
            => updatedBalls([state EXCEPT !.dragonBalls = updatedBalls(state)])
                 = updatedBalls(state) )
    /\ [][ (/\ ~NewGeneration
            /\ state'.dragonBalls # state.dragonBalls
            /\ state'.userLocation = state.userLocation
            /\ state'.collectionRadius = state.collectionRadius)
             => /\ effectDue'
                /\ ~collectionWrites(state')
                /\ collectionEffect(state', state') = state' ]_vars

\* the pass after a writing pass has run and left the set as it was: some
\* targets are found, nothing is due
C7_Witness ==
    /\ ~effectDue
    /\ state.userLocation # Null
    /\ foundCount(state) \in 1..6
    /\ ~collectionWrites(state)

(* C8: after any sequence of handleShenronWish calls, whichever mastery     *)
(* tier of MASTERY_LEVELS each mastery wish requests, collectionRadius      *)
(* never increases from one state to the next.                              *)
C8_RadiusNeverIncreases ==
    [][ state'.collectionRadius <= state.collectionRadius ]_vars

\* a key of the array is held once
NoDuplicate(arr) ==
    \A i, j \in DOMAIN arr : arr[i] = arr[j] => i = j

(* C9: unlockedFeatures only grows: every key it holds in one state it      *)
(* holds in the next, and no key appears twice.                             *)
C9_FeaturesOnlyGrow ==
    /\ [] NoDuplicate(state.unlockedFeatures)
    /\ [][ \A key \in Range(state.unlockedFeatures) :
             key \in Range(state'.unlockedFeatures) ]_vars

\* a feature already unlocked has been wished for again and granted, with
\* two features unlocked
C9_Witness ==
    /\ lastWish.type = "unlock"
    /\ lastWish.result = "Granted"
    /\ Len(state.unlockedFeatures) = 2
    /\ lastWish.id = state.unlockedFeatures[1]

(* C10: in every reachable state the target set has 0 or exactly 7          *)
(* elements, with ids 1..7 and stars equal to id, whatever the oracle       *)
(* replies to a scan.                                                       *)
C10_ZeroOrSevenTargets ==
    /\ Len(state.dragonBalls) \in {0, Seven}
    /\ \A i \in DOMAIN state.dragonBalls :
          /\ state.dragonBalls[i].id = i
          /\ state.dragonBalls[i].stars = state.dragonBalls[i].id

\* the replies for which the call of the oracle throws or JSON.parse throws
ThrowingReplies ==
    {reply \in OracleReplies : reply.kind \in {"throw", "unparsable"}}

(* C11: when the oracle call throws or its reply cannot be parsed, the      *)
(* promise of generateValidCoordinates is fulfilled, not rejected, with     *)
(* exactly 7 targets: ids 1..7, stars = id, found = false and a non-empty   *)
(* name each, for every center and range a request is made with.            *)
C11_FallbackIsTotal ==
    \A k \in DOMAIN inFlight : \A reply \in ThrowingReplies :
      \A draws \in FallbackDraws(inFlight[k].center, inFlight[k].range) :
        LET settled == generateValidCoordinates(inFlight[k].center, reply, draws)
        IN  /\ settled.status = "fulfilled"
            /\ Len(settled.value) = 7
            /\ \A i \in 1..7 :
                  /\ settled.value[i].id = i
                  /\ settled.value[i].stars = settled.value[i].id
                  /\ settled.value[i].found = FALSE
                  /\ settled.value[i].name # ""

\* a request is in flight for which the catch branch has a set to give, made
\* after the set of an earlier catch branch was installed
C11_Witness ==
    /\ inFlight # <<>>
    /\ FallbackDraws(inFlight[1].center, inFlight[1].range) # {}
    /\ Len(state.dragonBalls) = 7
    /\ \A i \in 1..7 : state.dragonBalls[i].name = fallbackName(i)

(* C12: no target with a non-numeric coordinate or an empty name ever       *)
(* enters the target set: a reply that parses but is malformed is replaced  *)
(* by the fallback set.                                                     *)
C12_NoMalformedTarget ==
    \A i \in DOMAIN state.dragonBalls :
        /\ state.dragonBalls[i].lat # NaN
        /\ state.dragonBalls[i].lng # NaN
        /\ state.dragonBalls[i].name # ""

\* this step answers a request made before the target set moved to another
\* generation
LateResultStep ==
    \E k \in DOMAIN inFlight :
        /\ inFlight[k].stale
        /\ inFlight' = RemoveAt(inFlight, k)

(* C13: the result of a scan request that was in flight when a granted wish *)
(* emptied the target set is discarded: when it arrives it does not replace *)
(* the current target set.                                                  *)
C13_LateResultDiscarded ==
    [][ LateResultStep => state'.dragonBalls = state.dragonBalls ]_vars

\* this step is a call of searchBalls that found no effective center
NoCenterStep ==
    /\ lastWish'.result = "NoCenter"
    /\ lastWish.result # "NoCenter"

(* C14: searchBalls invoked while there is no effective center surfaces an  *)
(* error (state.error becomes non-null), sends no oracle request and leaves *)
(* the target set and isLoading unchanged; with an effective center it      *)
(* never fails.                                                             *)
C14_NoCenterSurfacesError ==
    /\ [][ NoCenterStep
             => /\ state'.error # NoError
                /\ inFlight' = inFlight
                /\ state'.dragonBalls = state.dragonBalls
                /\ state'.isLoading = state.isLoading ]_vars
    /\ [](state.error # "Erreur de scan.")

SameSession(a, b) ==
    /\ a.dragonBalls = b.dragonBalls
    /\ a.range = b.range
    /\ a.scanCenter = b.scanCenter
    /\ Modifiers(a) = Modifiers(b)

\* this step starts the page from a JSON snapshot
StartStep ==
    /\ lastWish'.type = "start"
    /\ lastWish'.result = "Mounted"
    /\ storage.kind = "json"

C17_PersistenceFailureNonFatal == mounted = TRUE

(* C18: RadarUI renders a target if and only if the radial distance of its  *)
(* projected position (x, y in percent) from the centre (50, 50) is at most *)
(* 50: a target that projects into a corner of the bounding square, such as *)
(* x = 90, y = 90, is not rendered.                                         *)
C18_CircularCulling ==
    ~isMapView(radarStep) /\ effectiveCenter(state) # Null
      => \A i \in DOMAIN state.dragonBalls :
            LET pos == getRelativePos(effectiveCenter(state),
                                      currentRadarRange(state, radarStep),
                                      state.dragonBalls[i].lat,
                                      state.dragonBalls[i].lng)
            IN  i \in Rendered(state, radarStep)
                  <=> (pos.x - 50) * (pos.x - 50) + (pos.y - 50) * (pos.y - 50)
                        <= 50 * 50

\* the multipliers of the zoom steps 0..3, as metres of radar range per km
ZoomFactors == <<1000, 500, 200, 50>>

\* the radar range of zoom step 0..3 is the range times the step's multiplier
ZoomApplied ==
    currentRadarRange(state, radarStep) = state.range * ZoomFactors[radarStep + 1]

\* the zoom step moves by one from a step below 4, or back to 0: from the
\* map view by the return button or a scan completing, from another step by
\* a scan completing
ZoomStepMoves ==
    radarStep' # radarStep
      => \/ /\ radarStep < 4
            /\ radarStep' = radarStep + 1
            /\ UNCHANGED inFlight
         \/ /\ radarStep' = 0
            /\ isMapView(radarStep) \/ ScanCompleteStep

(* C19: the zoom step is always in 0..4 and cycles: each tap on the radar   *)
(* in steps 0..3 advances it by exactly one, applying the range multipliers *)
(* 1, 0.5, 0.2, 0.05 in that order; step 4 is the map view, where a tap     *)
(* leaves the step unchanged and the only transitions are back to step 0    *)
(* (return button, or a scan completing).  The multipliers apply to a range *)
(* below 20000; with the planet range 20000 the radar range is 20000 at     *)
(* every step.                                                              *)
C19_ZoomStepCycles ==
    /\ [] (radarStep \in 0..4)
    /\ [] (radarStep < 4 /\ state.range < 20000 => ZoomApplied)
    /\ [] (state.range >= 20000
             => currentRadarRange(state, radarStep) = 20000 * 1000)
    /\ [][ZoomStepMoves]_vars

\* the radar is at its last zoom with a custom range and a target set
C19_Witness ==
    /\ radarStep = 3
    /\ state.range = 126
    /\ Len(state.dragonBalls) = Seven

\* C19 as the specification states it: at every step 0..3 the radar range
\* is the range times the multiplier of the step, whatever the range
C19_MultipliersAtEveryRange == radarStep < 4 => ZoomApplied

\* this step is a press of a range button or a submission of a custom range
RangeStep == lastWish'.type = "range"

\* the state the pending collection effect, if any, leaves
Flushed(st) == IF effectDue THEN collectionEffect(st, st) ELSE st

(* C20: changing the scan parameters (a preset range button, or             *)
(* handleCustomRangeSubmit) changes only range and scanCenter: the target   *)
(* set, every found flag, the player position and the progression modifiers *)
(* are as the render leaves them without the change (a pending collection   *)
(* pass, which runs with any render, marks what it marks).                  *)
C20_RangeChangeFrame ==
    [][ RangeStep
          => /\ state' = [Flushed(state) EXCEPT !.range = state'.range,
                                                !.scanCenter = Null]
             /\ Len(state'.dragonBalls) = Len(state.dragonBalls)
             /\ ~effectDue => state'.dragonBalls = state.dragonBalls
             /\ state'.userLocation = state.userLocation
             /\ Modifiers(state') = Modifiers(state) ]_vars

\* a custom range has just been stored while the seven targets of the set
\* are found, and they still are
C20_Witness ==
    /\ lastWish.type = "range"
    /\ lastWish.result = "Custom"
    /\ state.range = 126
    /\ foundCount(state) = Seven

----------------------------------------------------------------------------
(* Claims on the progression *)

\* the chain of the races a wish can give
RaceChain == SubSeq(RACES, 2, Len(RACES))

\* the races before r in the chain
RacesBefore(r) ==
    {RaceChain[i] : i \in {j \in DOMAIN RaceChain :
                             \E k \in DOMAIN RaceChain :
                                RaceChain[k] = r /\ j < k}}

(* C21: race tiers are acquired in order: a race of the chain Cyborg,       *)
(* Namek, Démon, Saiyan, Dieu becomes currentRace only if every race before *)
(* it in the chain has been currentRace at an earlier moment of the run; a  *)
(* wish for a later race before that is rejected and leaves currentRace.    *)
C21_RacesInOrder ==
    /\ [] (state.currentRace \in pastRaces)
    /\ [][ /\ state'.currentRace # state.currentRace
              => /\ state'.currentRace \in Range(RaceChain)
                 /\ RacesBefore(state'.currentRace) \subseteq pastRaces
           /\ ( /\ WishStep
                /\ lastWish'.type = "race"
                /\ lastWish'.id \in Range(RaceChain)
                /\ ~(RacesBefore(lastWish'.id) \subseteq pastRaces) )
              => /\ lastWish'.result \in {"InsufficientTargets",
                                          "PrerequisiteNotMet"}
                 /\ state'.currentRace = state.currentRace ]_vars

\* with seven targets found, a wish for Démon has just been rejected in a
\* run in which Namek has never been the race
C21_Witness ==
    /\ lastWish = [type |-> "race", id |-> "Démon",
                   result |-> "PrerequisiteNotMet"]
    /\ "Namek" \notin pastRaces
    /\ foundCount(state) = Seven

\* the modifiers a granted wish of this type and id leaves, from those of st
OwnMutation(st, type, id) ==
    CASE type = "design"  -> [st EXCEPT !.design = id]
      [] type = "race"    -> [st EXCEPT !.currentRace = id]
      [] type = "mastery" -> [st EXCEPT !.collectionRadius = ParseFloat(id)]
      [] type = "unlock"  ->
           IF Includes(st.unlockedFeatures, id) THEN st
           ELSE [st EXCEPT !.unlockedFeatures = Append(@, id)]

(* C22: a granted wish applies exactly its own modifier mutation: a race    *)
(* wish changes only currentRace, a mastery wish only collectionRadius, an  *)
(* unlock wish only adds its key to unlockedFeatures (a design wish changes *)
(* only design); apart from emptying the target set, no granted wish        *)
(* changes range, scanCenter, userLocation, isLoading or any modifier other *)
(* than its own.                                                            *)
C22_GrantAppliesOwnMutation ==
    [][ GrantStep
          => /\ Modifiers(state')
                  = Modifiers(OwnMutation(state, lastWish'.type, lastWish'.id))
             /\ state'.range = state.range
             /\ state'.scanCenter = state.scanCenter
             /\ state'.userLocation = state.userLocation
             /\ state'.isLoading = state.isLoading
             /\ state'.dragonBalls = <<>> ]_vars

\* a mastery wish has just been granted while a scan is in flight, with a
\* feature unlocked
C22_Witness ==
    /\ lastWish.type = "mastery"
    /\ lastWish.result = "Granted"
    /\ state.isLoading
    /\ state.unlockedFeatures # <<>>
    /\ state.userLocation # Null

\* this step is a submission of the form of the custom range
CustomRangeStep == RangeStep /\ lastWish'.result = "Custom"

(* C23: the scan range is strictly positive in every reachable state: for   *)
(* every text submitted as a custom range (empty, non-numeric, zero,        *)
(* negative, above 10000) handleCustomRangeSubmit stores a value clamped to *)
(* 1..10000, and no other operation stores a range outside {1, 10, 100,     *)
(* 1000, 20000}.                                                            *)
C23_RangePositive ==
    /\ [] (state.range > 0)
    /\ [][ IF CustomRangeStep
           THEN /\ state'.range \in 1..10000
                /\ lastWish'.id \in {"", "abc", "0", "-5"} => state'.range = 1
                /\ lastWish'.id = "20000" => state'.range = 10000
           ELSE \/ state'.range = state.range
                \/ state'.range \in {1, 10, 100, 1000, 20000} ]_vars

\* the text "-5" has just been submitted, the range is 1 and the target set
\* of seven is there
C23_Witness ==
    /\ lastWish = [type |-> "range", id |-> "-5", result |-> "Custom"]
    /\ state.range = 1
    /\ Len(state.dragonBalls) = Seven

(* C24: in every reachable state, including the state restored at startup   *)
(* from a snapshot written at any earlier moment (for instance while a scan *)
(* was in flight), isLoading is true only if a scan request is in flight,   *)
(* so the scan control, disabled while isLoading, is never disabled         *)
(* forever.                                                                 *)
C24_LoadingMeansInFlight ==
    mounted /\ state.isLoading => inFlight # <<>>

(* C25: no lost update between the collection pass and a scan completion:   *)
(* a target set installed by a scan that completes between the read and the *)
(* write of a collection pass is not overwritten by the older array the     *)
(* pass computed.  In the step that answers a scan the target set is the    *)
(* one the scan gives, whose targets are all not found, and not the array   *)
(* of a pass, which has a target found.                                     *)
C25_NoLostUpdate ==
    [][ ScanCompleteStep
          => /\ \A i \in DOMAIN state'.dragonBalls :
                   ~state'.dragonBalls[i].found
             /\ ~(collectionWrites(state)
                    /\ state'.dragonBalls = updatedBalls(state)) ]_vars

(* C26: in every state reachable from the default state by calls of         *)
(* handleShenronWish the current race bounds the collection radius:         *)
(* Namek implies collectionRadius <= 0.025, Démon or Saiyan implies         *)
(* collectionRadius <= 0.01, Dieu implies collectionRadius <= 0.001.        *)
C26_RaceBoundsRadius ==
    /\ state.currentRace = "Namek" => state.collectionRadius <= 25
    /\ state.currentRace \in {"Démon", "Saiyan"} => state.collectionRadius <= 10
    /\ state.currentRace = "Dieu" => state.collectionRadius <= 1

\* the race is Namek with the radius back at 0.025 km in a run in which the
\* race has been Dieu
C26_Witness ==
    /\ state.currentRace = "Namek"
    /\ state.collectionRadius = 25
    /\ "Dieu" \in pastRaces

(* C27: in every state reachable from the default state the special         *)
(* features are unlocked in chain order: 'custom_zone' in unlockedFeatures  *)
(* implies 'scouter' is in it, 'world_scan' implies 'custom_zone', and      *)
(* 'scouter' implies that currentRace is not Terrien.                       *)
C27_FeaturesInChainOrder ==
    /\ Includes(state.unlockedFeatures, "custom_zone")
         => Includes(state.unlockedFeatures, "scouter")
    /\ Includes(state.unlockedFeatures, "world_scan")
         => Includes(state.unlockedFeatures, "custom_zone")
    /\ Includes(state.unlockedFeatures, "scouter")
         => state.currentRace # "Terrien"

\* the three features are unlocked and the race is Cyborg again
C27_Witness ==
    /\ Includes(state.unlockedFeatures, "world_scan")
    /\ state.currentRace = "Cyborg"

(* C28: the extended scan ranges are gated by progression: in every state   *)
(* reachable from the default state, range = 20000 implies 'world_scan' is  *)
(* in unlockedFeatures, and a range outside {1, 10, 100, 1000, 20000}       *)
(* implies 'custom_zone' is in unlockedFeatures.                            *)
C28_RangesGated ==
    /\ state.range = 20000 => Includes(state.unlockedFeatures, "world_scan")
    /\ state.range \notin {1, 10, 100, 1000, 20000}
         => Includes(state.unlockedFeatures, "custom_zone")

\* a set of seven is there with the planet range
C28_Witness ==
    /\ state.range = 20000
    /\ Len(state.dragonBalls) = Seven

(* C29: at most one scan request is in flight at any time: the scan control *)
(* is disabled while isLoading is true, so searchBalls is not started again *)
(* between the start of a scan and its completion, and two scan results are *)
(* never applied out of order.                                              *)
C29_OneScanInFlight ==
    /\ [] (Len(inFlight) <= 1)
    /\ [][ Len(inFlight') > Len(inFlight)
             => /\ inFlight = <<>>
                /\ ~state.isLoading
                /\ state'.isLoading ]_vars

\* a scan is in flight, started while the seven targets of the set were
\* found, and a wish granted since has emptied the set
C29_Witness ==
    /\ Len(inFlight) = 1
    /\ inFlight[1].stale
    /\ state.isLoading
    /\ state.dragonBalls = <<>>

(* C30: in the progression variant src/unnamed/part_002, with the guards of *)
(* the wish screen applied, in every state reachable from the default state *)
(* and for every index k >= 1 of RACES_DATA (counted from 0): the race wish *)
(* id of entry k is in unlockedFeatures only if the distance wish id of     *)
(* entry k-1 is, and the distance wish id of entry k is in unlockedFeatures *)
(* only if the race wish id of entry k is.                                  *)
C30_ProgressionInOrder ==
    \A k \in DOMAIN RACES_DATA \ {1} :
       /\ isUnlocked(state, RACES_DATA[k].wishId)
            => isUnlocked(state, RACES_DATA[k - 1].distWishId)
       /\ isUnlocked(state, RACES_DATA[k].distWishId)
            => isUnlocked(state, RACES_DATA[k].wishId)

\* the whole progression is unlocked and the player is a Namek again
C30_Witness ==
    /\ allProgressionsUnlocked(state)
    /\ state.currentRace = "Namek"

====
